---- MODULE Spec2Model ----
(***************************************************************************)
(* Model of screenshot-rs (src/src/lib.rs): the Screenshot buffer with its *)
(* pixel lookup and the three get_screenshot backends (X11, CoreGraphics,  *)
(* GDI).  A call of get_screenshot is a linear run of native calls; every  *)
(* native call, check, copy and release is one step, and the steps append  *)
(* to `log` so that order and count of acquisitions, uses and releases can *)
(* be stated.  Native results are chosen nondeterministically.  A native   *)
(* call on a handle whose acquisition failed, and an unchecked read, are   *)
(* undefined behaviour: the run then either crashes or goes on with        *)
(* arbitrary values.                                                       *)
(***************************************************************************)
EXTENDS Integers, Sequences, FiniteSets, TLC

VARIABLES
    backend,     \* "linux" | "macos" | "windows": the cfg(target_os) build
    screen,      \* the argument of get_screenshot
    nscreens,    \* number of screens / active displays of the native system
    pc,          \* position in get_screenshot
    log,         \* sequence of <<op, name>> events of the call so far
    bad,         \* handles whose acquisition failed (null / invalid)
    ub,          \* undefined behaviour has been executed
    img,         \* what the native image reports
    nativeBuf,   \* bytes of the native image / CFData / device bitmap
    width, height, row_len, pixel_bits, raw_len,   \* locals of get_screenshot
    data,        \* the Vec<u8>
    dataMem,     \* "none" | "owned" | "native": memory `data` lives in
    writes,      \* flip_rows: number of writes to each index of new_data
    res,         \* macOS: the pending `res`
    result,      \* "none" | "Ok" | "Err" | "panic" | "crash"
    err,         \* the &'static str of an Err
    shot,        \* the Screenshot
    row, col,    \* arguments of get_pixel
    pix          \* outcome of get_pixel

vars == <<backend, screen, nscreens, pc, log, bad, ub, img, nativeBuf,
          width, height, row_len, pixel_bits, raw_len, data, dataMem,
          writes, res, result, err, shot, row, col, pix>>

envVars   == <<backend, screen, nscreens>>
localVars == <<width, height, row_len, pixel_bits, raw_len>>
pixVars   == <<row, col, pix>>

----------------------------------------------------------------------------
(* Bounds *)
MaxDim     == 2      \* native widths and heights are 1..MaxDim
MaxScreens == 2      \* screens / displays, and the range of the index
MaxLen     == 5      \* alpha repair: buffer lengths 0..MaxLen
MaxH       == 3      \* flip_rows: heights 0..MaxH
MaxL       == 2      \* flip_rows: row lengths 0..MaxL

BitDepths  == {4, 8, 24, 32}     \* bits per pixel a native image may report
ByteVals   == {0, 7, 255}        \* byte values of the enumerated buffers
Patterns   == {"zeros", "marker", "alpha0"}

Backends   == {"linux", "macos", "windows"}

----------------------------------------------------------------------------
(* Helpers on the event log *)
Ev(op, name) == <<op, name>>

Count(e) == Cardinality({i \in DOMAIN log : log[i] = e})

Happened(e) == \E i \in DOMAIN log : log[i] = e

\* every occurrence of e1 precedes every occurrence of e2
AllBefore(e1, e2) ==
    \A i, j \in DOMAIN log : (log[i] = e1 /\ log[j] = e2) => i < j

Resources == {"display", "ximage", "cg_img", "cf_data",
              "h_dc_screen", "h_dc", "h_bmp"}

----------------------------------------------------------------------------
(* Native data *)
PatternByte(p, n) ==
    IF p = "zeros" THEN 0
    ELSE IF p = "marker" THEN (n % 255) + 1
    ELSE IF n % 4 = 3 THEN 0 ELSE 7

\* n bytes; element n+1 of the sequence is the byte at index n
PatternBuf(p, n) == [i \in 1..n |-> PatternByte(p, i - 1)]

Tight(w, bits) == (w * bits + 7) \div 8
RoundUp4(n)    == ((n + 3) \div 4) * 4

\* a scanline is either packed or padded to 32 bits
Strides(w, bits) == {Tight(w, bits), RoundUp4(Tight(w, bits))}

Images ==
    {i \in [width : 1..MaxDim, height : 1..MaxDim, bits_per_pixel : BitDepths,
            bytes_per_line : 1..(4 * MaxDim)] :
        i.bytes_per_line \in Strides(i.width, i.bits_per_pixel)}

NoImg == [width |-> 0, height |-> 0, bits_per_pixel |-> 0, bytes_per_line |-> 0]

NoShot == [data |-> <<>>, height |-> 0, width |-> 0, row_len |-> 0,
           pixel_width |-> 0]

NoPix == [kind |-> "none", a |-> 0, r |-> 0, g |-> 0, b |-> 0, oob |-> FALSE]

----------------------------------------------------------------------------
(* Alpha repair of the X11 backend *)
has_alpha(d) == \E n \in 0..(Len(d) - 1) : n % 4 = 3 /\ d[n + 1] # 0

AlphaFix_wrongChannel(d) ==
    IF has_alpha(d) THEN d
    ELSE [i \in 1..Len(d) |-> IF (i - 1) % 4 = 0 THEN 255 ELSE d[i]]

AlphaFix(d) ==
    IF has_alpha(d) THEN d
    ELSE [i \in 1..Len(d) |-> IF (i - 1) % 4 = 3 THEN 255 ELSE d[i]]

----------------------------------------------------------------------------
(* flip_rows of the GDI backend.  The two nested loops are run as one      *)
(* loop over k = row_i * row_len + byte_i; new_data starts uninitialised   *)
(* (-1) and `writes` counts the assignments to each index.                 *)
Uninit == -1

RECURSIVE FlipLoop(_, _, _, _, _)
FlipLoop(d, h, l, k, acc) ==
    IF k >= h * l THEN acc
    ELSE LET row_i   == k \div l
             byte_i  == k % l
             old_idx == (h - row_i - 1) * l + byte_i
             new_idx == row_i * l + byte_i
         IN  IF old_idx >= Len(d) \/ new_idx >= Len(d)
             THEN [acc EXCEPT !.panicked = TRUE]
             ELSE FlipLoop(d, h, l, k + 1,
                     [acc EXCEPT !.new_data[new_idx + 1] = d[old_idx + 1],
                                 !.writes[new_idx + 1] = @ + 1])

flip_rows_sameRow(d, h, l) ==
    [new_data |-> d, writes |-> [i \in 1..Len(d) |-> 1], panicked |-> FALSE]

flip_rows(d, h, l) ==
    FlipLoop(d, h, l, 0,
             [new_data |-> [i \in 1..Len(d) |-> Uninit],
              writes   |-> [i \in 1..Len(d) |-> 0],
              panicked |-> FALSE])

----------------------------------------------------------------------------
(* Initial states *)
InitLocals ==
    /\ log = <<>> /\ bad = {} /\ ub = FALSE
    /\ img = NoImg
    /\ width = 0 /\ pixel_bits = 0 /\ raw_len = 0
    /\ data = <<>> /\ dataMem = "none" /\ writes = <<>>
    /\ res = "none" /\ result = "none" /\ err = ""
    /\ row = 0 /\ col = 0 /\ pix = NoPix

InitCall ==
    /\ InitLocals
    /\ nativeBuf = <<>> /\ height = 0 /\ row_len = 0 /\ shot = NoShot

\* A display connection always has at least one screen; the list of active
\* displays may be empty.
Init ==
    /\ backend \in Backends
    /\ screen \in 0..MaxScreens
    /\ nscreens \in 0..MaxScreens
    /\ (backend # "macos" => nscreens >= 1)
    /\ pc = "start"
    /\ InitCall

----------------------------------------------------------------------------
(* Outcomes of a step *)
Crash == pc' = "done" /\ result' = "crash" /\ UNCHANGED <<err, res, shot>>

Goto(l) == pc' = l /\ UNCHANGED <<result, err, res, shot>>

ReturnErr(e) == pc' = "done" /\ result' = "Err" /\ err' = e /\ UNCHANGED <<res, shot>>

Panic == pc' = "done" /\ result' = "panic" /\ UNCHANGED <<err, res, shot>>

\* undefined behaviour: crash, or go on
Undefined(l) == ub' = TRUE /\ (Crash \/ Goto(l))

Logged(es) == log' = log \o es

----------------------------------------------------------------------------
(* X11 backend, get_screenshot *)
LxOpenDisplay ==
    /\ backend = "linux" /\ pc = "start"
    /\ \E ok \in BOOLEAN :
         IF ok THEN Logged(<<Ev("acquire", "display")>>) /\ bad' = bad
         ELSE Logged(<<Ev("fail", "XOpenDisplay")>>) /\ bad' = bad \cup {"display"}
    /\ Goto("l_screen")
    /\ UNCHANGED <<envVars, ub, img, nativeBuf, localVars, data, dataMem, writes, pixVars>>

\* XScreenOfDisplay indexes dpy->screens without a bounds check and
\* XRootWindowOfScreen reads the root out of what it is given.
LxScreenOfDisplay ==
    /\ backend = "linux" /\ pc = "l_screen"
    /\ Logged(<<Ev("use", "display"), Ev("use", "screen_ptr")>>)
    /\ IF "display" \in bad \/ screen >= nscreens
       THEN /\ Undefined("l_attr")
            /\ bad' = bad \cup {"screen_ptr", "root"}
       ELSE /\ Goto("l_attr")
            /\ UNCHANGED <<ub, bad>>
    /\ UNCHANGED <<envVars, img, nativeBuf, localVars, data, dataMem, writes, pixVars>>

LxGetWindowAttributes ==
    /\ backend = "linux" /\ pc = "l_attr"
    /\ IF {"display", "root"} \cap bad # {}
       THEN /\ Undefined("l_image")
            /\ Logged(<<Ev("use", "display"), Ev("use", "root"),
                        Ev("fail", "XGetWindowAttributes")>>)
            /\ bad' = bad \cup {"attr"}
       ELSE /\ Goto("l_image")
            /\ ub' = ub
            /\ \E ok \in BOOLEAN :
                 IF ok
                 THEN /\ Logged(<<Ev("use", "display"), Ev("use", "root")>>)
                      /\ bad' = bad
                 ELSE /\ Logged(<<Ev("use", "display"), Ev("use", "root"),
                                  Ev("fail", "XGetWindowAttributes")>>)
                      /\ bad' = bad \cup {"attr"}
    /\ UNCHANGED <<envVars, img, nativeBuf, localVars, data, dataMem, writes, pixVars>>

LxGetImage ==
    /\ backend = "linux" /\ pc = "l_image"
    /\ LET call == <<Ev("use", "display"), Ev("use", "root"), Ev("use", "attr"),
                     Ev("request", "snapshot")>>
           failed == /\ Logged(call \o <<Ev("fail", "XGetImage")>>)
                     /\ bad' = bad \cup {"ximage"}
                     /\ UNCHANGED <<img, nativeBuf>>
       IN  IF {"display", "root", "attr"} \cap bad # {}
           THEN Undefined("l_close") /\ failed
           ELSE /\ Goto("l_close")
                /\ ub' = ub
                /\ \/ failed
                   \/ \E i \in Images, p \in Patterns :
                        /\ img' = i
                        /\ nativeBuf' = PatternBuf(p, i.bytes_per_line * i.height)
                        /\ Logged(call \o <<Ev("acquire", "ximage")>>)
                        /\ bad' = bad
    /\ UNCHANGED <<envVars, localVars, data, dataMem, writes, pixVars>>

\* XDestroyWindow(display, root); XCloseDisplay(display);
LxCloseDisplay ==
    /\ backend = "linux" /\ pc = "l_close"
    /\ Logged(<<Ev("use", "display"), Ev("use", "root"), Ev("release", "display")>>)
    /\ IF "display" \in bad THEN Undefined("l_read") ELSE Goto("l_read") /\ ub' = ub
    /\ UNCHANGED <<envVars, bad, img, nativeBuf, localVars, data, dataMem, writes, pixVars>>

\* img.f.destroy_image, img.height, img.width, img.bytes_per_line,
\* img.bits_per_pixel
LxReadImage ==
    /\ backend = "linux" /\ pc = "l_read"
    /\ Logged(<<Ev("read", "ximage")>>)
    /\ IF "ximage" \in bad
       THEN /\ Undefined("l_depth")
            /\ \E i \in Images :
                 /\ height' = i.height /\ width' = i.width
                 /\ row_len' = i.bytes_per_line /\ pixel_bits' = i.bits_per_pixel
       ELSE /\ Goto("l_depth")
            /\ ub' = ub
            /\ height' = img.height /\ width' = img.width
            /\ row_len' = img.bytes_per_line /\ pixel_bits' = img.bits_per_pixel
    /\ UNCHANGED <<envVars, bad, img, nativeBuf, raw_len, data, dataMem, writes, pixVars>>

LxDepthCheck_mod4 ==
    /\ backend = "linux" /\ pc = "l_depth"
    /\ IF pixel_bits % 4 # 0
       THEN /\ Logged(<<Ev("check", "depth"), Ev("release", "ximage")>>)
            /\ nativeBuf' = <<>>
            /\ IF "ximage" \in bad
               THEN ub' = TRUE /\ (Crash \/ ReturnErr("Pixels aren't integral bytes."))
               ELSE ub' = ub /\ ReturnErr("Pixels aren't integral bytes.")
       ELSE /\ Logged(<<Ev("check", "depth")>>)
            /\ Goto("l_copy")
            /\ UNCHANGED <<ub, nativeBuf>>
    /\ UNCHANGED <<envVars, bad, img, localVars, data, dataMem, writes, pixVars>>

LxDepthCheck ==
    /\ backend = "linux" /\ pc = "l_depth"
    /\ IF pixel_bits % 8 # 0
       THEN /\ Logged(<<Ev("check", "depth"), Ev("release", "ximage")>>)
            /\ nativeBuf' = <<>>
            /\ IF "ximage" \in bad
               THEN ub' = TRUE /\ (Crash \/ ReturnErr("Pixels aren't integral bytes."))
               ELSE ub' = ub /\ ReturnErr("Pixels aren't integral bytes.")
       ELSE /\ Logged(<<Ev("check", "depth")>>)
            /\ Goto("l_copy")
            /\ UNCHANGED <<ub, nativeBuf>>
    /\ UNCHANGED <<envVars, bad, img, localVars, data, dataMem, writes, pixVars>>

LxCopy_alias(size) ==
    /\ data' = SubSeq(nativeBuf, 1, size)
    /\ dataMem' = "native"

\* slice::from_raw_parts(img.data as *mut u8, size).to_vec()
LxCopy(size) ==
    /\ data' = SubSeq(nativeBuf, 1, size)
    /\ dataMem' = "owned"

LxCopyImage ==
    /\ backend = "linux" /\ pc = "l_copy"
    /\ LET pixel_width == pixel_bits \div 8
           size == width * height * pixel_width
       IN  /\ Logged(<<Ev("read", "ximage"), Ev("copy", "ximage")>>)
           /\ IF "ximage" \in bad \/ size > Len(nativeBuf)
              THEN /\ Undefined("l_destroy")
                   /\ \E p \in Patterns : data' = PatternBuf(p, size)
                   /\ dataMem' = "owned"
              ELSE /\ Goto("l_destroy")
                   /\ ub' = ub
                   /\ LxCopy(size)
    /\ UNCHANGED <<envVars, bad, img, nativeBuf, localVars, writes, pixVars>>

LxDestroyImage ==
    /\ backend = "linux" /\ pc = "l_destroy"
    /\ Logged(<<Ev("release", "ximage")>>)
    /\ nativeBuf' = <<>>
    /\ IF "ximage" \in bad THEN Undefined("l_alpha") ELSE Goto("l_alpha") /\ ub' = ub
    /\ UNCHANGED <<envVars, bad, img, localVars, data, dataMem, writes, pixVars>>

LxAlphaReturn ==
    /\ backend = "linux" /\ pc = "l_alpha"
    /\ data' = AlphaFix(data)
    /\ shot' = [data |-> data', height |-> height, width |-> width,
                row_len |-> row_len, pixel_width |-> pixel_bits \div 8]
    /\ pc' = "done" /\ result' = "Ok"
    /\ UNCHANGED <<envVars, log, bad, ub, img, nativeBuf, localVars, dataMem, writes,
                   res, err, pixVars>>

Linux ==
    \/ LxOpenDisplay \/ LxScreenOfDisplay \/ LxGetWindowAttributes \/ LxGetImage
    \/ LxCloseDisplay \/ LxReadImage \/ LxDepthCheck \/ LxCopyImage
    \/ LxDestroyImage \/ LxAlphaReturn

----------------------------------------------------------------------------
(* CoreGraphics backend, get_screenshot *)
MacCount ==
    /\ backend = "macos" /\ pc = "start"
    /\ \/ Logged(<<Ev("fail", "CGGetActiveDisplayList")>>)
          /\ ReturnErr("Error getting number of displays.")
       \/ UNCHANGED log /\ Goto("m_list")
    /\ UNCHANGED <<envVars, bad, ub, img, nativeBuf, localVars, data, dataMem, writes,
                   pixVars>>

\* disps has `count` elements; &mut disps[0] is a checked index
MacList ==
    /\ backend = "macos" /\ pc = "m_list"
    /\ IF nscreens = 0
       THEN UNCHANGED log /\ Panic
       ELSE \/ Logged(<<Ev("fail", "CGGetActiveDisplayList")>>)
               /\ ReturnErr("Error getting list of displays.")
            \/ UNCHANGED log /\ Goto("m_index")
    /\ UNCHANGED <<envVars, bad, ub, img, nativeBuf, localVars, data, dataMem, writes,
                   pixVars>>

\* disps[screen] is a checked index
MacIndex ==
    /\ backend = "macos" /\ pc = "m_index"
    /\ Logged(<<Ev("check", "index")>>)
    /\ IF screen >= nscreens THEN Panic ELSE Goto("m_image")
    /\ UNCHANGED <<envVars, bad, ub, img, nativeBuf, localVars, data, dataMem, writes,
                   pixVars>>

MacCreateImage ==
    /\ backend = "macos" /\ pc = "m_image"
    /\ \/ /\ Logged(<<Ev("use", "disp_id"), Ev("request", "snapshot"),
                      Ev("fail", "CGDisplayCreateImage")>>)
          /\ bad' = bad \cup {"cg_img"}
          /\ img' = img
       \/ \E i \in Images :
            /\ img' = i
            /\ Logged(<<Ev("use", "disp_id"), Ev("request", "snapshot"),
                        Ev("acquire", "cg_img")>>)
            /\ bad' = bad
    /\ Goto("m_info")
    /\ UNCHANGED <<envVars, ub, nativeBuf, localVars, data, dataMem, writes, pixVars>>

\* CGImageGetWidth, CGImageGetHeight, CGImageGetBytesPerRow,
\* CGImageGetBitsPerPixel
MacInfo ==
    /\ backend = "macos" /\ pc = "m_info"
    /\ Logged(<<Ev("read", "cg_img")>>)
    /\ IF "cg_img" \in bad
       THEN /\ Undefined("m_depth")
            /\ \E i \in Images :
                 /\ height' = i.height /\ width' = i.width
                 /\ row_len' = i.bytes_per_line /\ pixel_bits' = i.bits_per_pixel
       ELSE /\ Goto("m_depth")
            /\ ub' = ub
            /\ height' = img.height /\ width' = img.width
            /\ row_len' = img.bytes_per_line /\ pixel_bits' = img.bits_per_pixel
    /\ UNCHANGED <<envVars, bad, img, nativeBuf, raw_len, data, dataMem, writes, pixVars>>

MacDepthCheck ==
    /\ backend = "macos" /\ pc = "m_depth"
    /\ Logged(<<Ev("check", "depth")>>)
    /\ IF pixel_bits % 8 # 0
       THEN ReturnErr("Pixels aren't integral bytes.")
       ELSE Goto("m_data")
    /\ UNCHANGED <<envVars, bad, ub, img, nativeBuf, localVars, data, dataMem, writes,
                   pixVars>>

\* the lengths a CFData of the image may report
DataLengths == {row_len * height, (width * height * pixel_bits) \div 8,
                row_len * height + 1}

\* CGDataProviderCopyData(CGImageGetDataProvider(cg_img)); CFDataGetLength
MacCopyData ==
    /\ backend = "macos" /\ pc = "m_data"
    /\ LET failed == /\ Logged(<<Ev("use", "cg_img"), Ev("fail", "CGDataProviderCopyData"),
                                 Ev("use", "cf_data")>>)
                     /\ bad' = bad \cup {"cf_data"}
                     /\ nativeBuf' = nativeBuf
                     /\ Undefined("m_validate")
                     /\ \E n \in DataLengths \cup {0} : raw_len' = n
       IN  \/ failed
           \/ /\ "cg_img" \notin bad
              /\ \E n \in DataLengths, p \in Patterns :
                   /\ nativeBuf' = PatternBuf(p, n)
                   /\ raw_len' = n
              /\ Logged(<<Ev("use", "cg_img"), Ev("acquire", "cf_data"),
                          Ev("use", "cf_data")>>)
              /\ Goto("m_validate")
              /\ UNCHANGED <<bad, ub>>
    /\ UNCHANGED <<envVars, img, width, height, row_len, pixel_bits, data, dataMem,
                   writes, pixVars>>

\* the if / else that computes `res`
MacValidate ==
    /\ backend = "macos" /\ pc = "m_validate"
    /\ IF width * height * pixel_bits # raw_len * 8
       THEN /\ Logged(<<Ev("check", "length")>>)
            /\ res' = "Err" /\ err' = "Image size is inconsistent with W*H*D."
            /\ pc' = "m_rel_img"
            /\ UNCHANGED <<ub, data, dataMem, shot, result>>
       ELSE /\ Logged(<<Ev("check", "length"), Ev("use", "cf_data"),
                        Ev("copy", "cf_data")>>)
            /\ dataMem' = "owned"
            /\ res' = "Ok" /\ err' = err
            /\ IF "cf_data" \in bad \/ raw_len > Len(nativeBuf)
               THEN /\ ub' = TRUE
                    /\ \E p \in Patterns : data' = PatternBuf(p, raw_len)
                    /\ \/ pc' = "done" /\ result' = "crash"
                       \/ pc' = "m_rel_img" /\ result' = result
               ELSE /\ ub' = ub
                    /\ data' = SubSeq(nativeBuf, 1, raw_len)
                    /\ pc' = "m_rel_img" /\ result' = result
            /\ shot' = [data |-> data', height |-> height, width |-> width,
                        row_len |-> row_len, pixel_width |-> pixel_bits \div 8]
    /\ UNCHANGED <<envVars, bad, img, nativeBuf, localVars, writes, pixVars>>

MacReleaseImage_okOnly ==
    /\ backend = "macos" /\ pc = "m_rel_img"
    /\ IF res = "Ok" THEN Logged(<<Ev("release", "cg_img")>>) ELSE UNCHANGED log
    /\ Goto("m_rel_data")
    /\ UNCHANGED <<envVars, bad, ub, img, nativeBuf, localVars, data, dataMem, writes,
                   pixVars>>

\* CGImageRelease(cg_img); a null image is ignored
MacReleaseImage ==
    /\ backend = "macos" /\ pc = "m_rel_img"
    /\ Logged(<<Ev("release", "cg_img")>>)
    /\ Goto("m_rel_data")
    /\ UNCHANGED <<envVars, bad, ub, img, nativeBuf, localVars, data, dataMem, writes,
                   pixVars>>

\* CFRelease(cf_data)
MacReleaseData ==
    /\ backend = "macos" /\ pc = "m_rel_data"
    /\ Logged(<<Ev("release", "cf_data")>>)
    /\ nativeBuf' = <<>>
    /\ IF "cf_data" \in bad THEN Undefined("m_return") ELSE Goto("m_return") /\ ub' = ub
    /\ UNCHANGED <<envVars, bad, img, localVars, data, dataMem, writes, pixVars>>

MacReturn ==
    /\ backend = "macos" /\ pc = "m_return"
    /\ pc' = "done" /\ result' = res
    /\ UNCHANGED <<envVars, log, bad, ub, img, nativeBuf, localVars, data, dataMem,
                   writes, res, err, shot, pixVars>>

MacOS ==
    \/ MacCount \/ MacList \/ MacIndex \/ MacCreateImage \/ MacInfo \/ MacDepthCheck
    \/ MacCopyData \/ MacValidate \/ MacReleaseImage \/ MacReleaseData \/ MacReturn

----------------------------------------------------------------------------
(* GDI backend, get_screenshot.  Win32 calls given a null handle fail      *)
(* with an error value; they do not crash.                                 *)
winVars == <<envVars, ub, img, nativeBuf, row_len, raw_len, dataMem, writes, pixVars>>

\* GetDesktopWindow(); GetDC(h_wnd_screen): the result is not checked
WinGetDC ==
    /\ backend = "windows" /\ pc = "start"
    /\ \/ Logged(<<Ev("acquire", "h_dc_screen")>>) /\ bad' = bad
       \/ Logged(<<Ev("fail", "GetDC")>>) /\ bad' = bad \cup {"h_dc_screen"}
    /\ Goto("w_metrics")
    /\ UNCHANGED <<winVars, width, height, pixel_bits, data>>

\* GetSystemMetrics returns 0 when it fails
WinMetrics ==
    /\ backend = "windows" /\ pc = "w_metrics"
    /\ \E w \in 0..MaxDim, h \in 0..MaxDim :
         /\ width' = w /\ height' = h
         /\ IF w = 0 \/ h = 0
            THEN Logged(<<Ev("fail", "GetSystemMetrics")>>)
            ELSE UNCHANGED log
    /\ Goto("w_dc")
    /\ UNCHANGED <<winVars, bad, pixel_bits, data>>

\* CreateCompatibleDC(NULL) is valid: a memory DC of the current screen
WinCreateDC ==
    /\ backend = "windows" /\ pc = "w_dc"
    /\ \/ /\ Logged(<<Ev("use", "h_dc_screen"), Ev("acquire", "h_dc")>>)
          /\ Goto("w_bmp")
       \/ /\ Logged(<<Ev("use", "h_dc_screen"), Ev("fail", "CreateCompatibleDC")>>)
          /\ ReturnErr("Can't get a Windows display.")
    /\ UNCHANGED <<winVars, bad, width, height, pixel_bits, data>>

WinCreateBitmap ==
    /\ backend = "windows" /\ pc = "w_bmp"
    /\ \/ /\ "h_dc_screen" \notin bad
          /\ Logged(<<Ev("use", "h_dc_screen"), Ev("acquire", "h_bmp")>>)
          /\ Goto("w_select")
       \/ /\ Logged(<<Ev("use", "h_dc_screen"), Ev("fail", "CreateCompatibleBitmap")>>)
          /\ ReturnErr("Can't create a Windows buffer")
    /\ UNCHANGED <<winVars, bad, width, height, pixel_bits, data>>

WinSelectObject ==
    /\ backend = "windows" /\ pc = "w_select"
    /\ \/ /\ Logged(<<Ev("use", "h_dc"), Ev("use", "h_bmp")>>)
          /\ Goto("w_blt")
       \/ /\ Logged(<<Ev("use", "h_dc"), Ev("use", "h_bmp"), Ev("fail", "SelectObject")>>)
          /\ ReturnErr("Can't select Windows buffer.")
    /\ UNCHANGED <<winVars, bad, width, height, pixel_bits, data>>

\* scale is 1: the BitBlt branch
WinBitBlt ==
    /\ backend = "windows" /\ pc = "w_blt"
    /\ \/ /\ Logged(<<Ev("use", "h_dc"), Ev("use", "h_dc_screen"),
                      Ev("request", "snapshot")>>)
          /\ Goto("w_alloc")
       \/ /\ Logged(<<Ev("use", "h_dc"), Ev("use", "h_dc_screen"),
                      Ev("request", "snapshot"), Ev("fail", "BitBlt")>>)
          /\ ReturnErr("Failed to copy screen to Windows buffer")
    /\ UNCHANGED <<winVars, bad, width, height, pixel_bits, data>>

\* pixel_width = 4, biBitCount = 8 * pixel_width, and the Vec of `size`
\* uninitialised bytes
WinAlloc ==
    /\ backend = "windows" /\ pc = "w_alloc"
    /\ pixel_bits' = 8 * 4
    /\ data' = [i \in 1..(width * height * 4) |-> Uninit]
    /\ Goto("w_dibits")
    /\ UNCHANGED <<winVars, log, bad, width, height>>

\* &mut data[0] is a checked index; the result of GetDIBits is not checked
WinGetDIBits ==
    /\ backend = "windows" /\ pc = "w_dibits"
    /\ IF Len(data) = 0
       THEN Panic /\ UNCHANGED <<log, data>>
       ELSE /\ Goto("w_rel_screen")
            /\ \/ /\ Logged(<<Ev("use", "h_dc"), Ev("use", "h_bmp"), Ev("copy", "h_bmp")>>)
                  /\ \E p \in Patterns : data' = PatternBuf(p, Len(data))
               \/ /\ Logged(<<Ev("use", "h_dc"), Ev("use", "h_bmp"), Ev("fail", "GetDIBits")>>)
                  /\ data' = data
    /\ UNCHANGED <<winVars, bad, width, height, pixel_bits>>

WinReleaseDC ==
    /\ backend = "windows" /\ pc = "w_rel_screen"
    /\ Logged(<<Ev("release", "h_dc_screen")>>)
    /\ Goto("w_rel_dc")
    /\ UNCHANGED <<winVars, bad, width, height, pixel_bits, data>>

WinDeleteDC ==
    /\ backend = "windows" /\ pc = "w_rel_dc"
    /\ Logged(<<Ev("release", "h_dc")>>)
    /\ Goto("w_rel_bmp")
    /\ UNCHANGED <<winVars, bad, width, height, pixel_bits, data>>

WinDeleteObject ==
    /\ backend = "windows" /\ pc = "w_rel_bmp"
    /\ Logged(<<Ev("release", "h_bmp")>>)
    /\ Goto("w_flip")
    /\ UNCHANGED <<winVars, bad, width, height, pixel_bits, data>>

\* flip_rows(data, height, width * pixel_width) and Ok(Screenshot { .. }).
\* A buffer GetDIBits did not fill is read uninitialised.
WinFlipReturn ==
    /\ backend = "windows" /\ pc = "w_flip"
    /\ LET pixel_width == 4
           f == flip_rows(data, height, width * pixel_width)
       IN  /\ data' = f.new_data
           /\ writes' = f.writes
           /\ dataMem' = "owned"
           /\ row_len' = width * pixel_width
           /\ ub' = (ub \/ \E i \in DOMAIN data : data[i] = Uninit)
           /\ shot' = [data |-> f.new_data, height |-> height, width |-> width,
                       row_len |-> width * pixel_width, pixel_width |-> pixel_width]
    /\ pc' = "done" /\ result' = "Ok"
    /\ UNCHANGED <<envVars, log, bad, img, nativeBuf, width, height, pixel_bits,
                   raw_len, res, err, pixVars>>

Windows ==
    \/ WinGetDC \/ WinMetrics \/ WinCreateDC \/ WinCreateBitmap \/ WinSelectObject
    \/ WinBitBlt \/ WinAlloc \/ WinGetDIBits \/ WinReleaseDC \/ WinDeleteDC
    \/ WinDeleteObject \/ WinFlipReturn

Next == Linux \/ MacOS \/ Windows

Spec == Init /\ [][Next]_vars

----------------------------------------------------------------------------
(* Screenshot::get_pixel, applied to the screenshots the backends build *)
Shots ==
    {[data |-> PatternBuf(p, i.width * i.height * (i.bits_per_pixel \div 8)),
      height |-> i.height, width |-> i.width, row_len |-> i.bytes_per_line,
      pixel_width |-> i.bits_per_pixel \div 8] :
        i \in {j \in Images : j.bits_per_pixel % 8 = 0}, p \in Patterns}

InitPixel ==
    /\ backend \in Backends /\ screen = 0 /\ nscreens = 1
    /\ pc = "p_start"
    /\ InitLocals
    /\ nativeBuf = <<>> /\ height = 0 /\ row_len = 0
    /\ shot \in Shots

idx(r, c) == r * shot.row_len + c * shot.pixel_width

\* the byte at index n of self.data
Byte(n) == shot.data[n + 1]

\* get_unchecked past the end of the Vec is undefined: the read crashes
\* or yields whatever lies there
get_pixel(r, c) ==
    LET i == idx(r, c)
    IN  IF i > Len(shot.data)
        THEN pix' = [NoPix EXCEPT !.kind = "panic"]
        ELSE IF i + 3 < Len(shot.data)
        THEN pix' = [kind |-> "pixel", a |-> Byte(i + 3), r |-> Byte(i + 2),
                     g |-> Byte(i + 1), b |-> Byte(i), oob |-> FALSE]
        ELSE \/ pix' = [NoPix EXCEPT !.kind = "crash", !.oob = TRUE]
             \/ \E v \in ByteVals :
                  pix' = [kind |-> "pixel", a |-> v, r |-> v, g |-> v, b |-> v,
                          oob |-> TRUE]

GetPixel ==
    /\ pc = "p_start"
    /\ \E r \in 0..MaxDim, c \in 0..MaxDim :
         /\ row' = r /\ col' = c
         /\ get_pixel(r, c)
    /\ pc' = "p_done"
    /\ UNCHANGED <<envVars, log, bad, ub, img, nativeBuf, localVars, data, dataMem,
                   writes, res, result, err, shot>>

NextPixel == GetPixel

SpecPixel == InitPixel /\ [][NextPixel]_vars

----------------------------------------------------------------------------
(* The alpha repair on its own, over every buffer of up to MaxLen bytes *)
InitAlpha ==
    /\ backend = "linux" /\ screen = 0 /\ nscreens = 1
    /\ pc = "a_start"
    /\ InitLocals
    /\ height = 0 /\ row_len = 0 /\ shot = NoShot
    /\ \E n \in 0..MaxLen : nativeBuf \in [1..n -> ByteVals]

AlphaApply ==
    /\ pc = "a_start"
    /\ data' = AlphaFix(nativeBuf)
    /\ pc' = "a_once"
    /\ UNCHANGED <<envVars, log, bad, ub, img, nativeBuf, localVars, dataMem, writes,
                   res, result, err, shot, pixVars>>

AlphaAgain ==
    /\ pc = "a_once"
    /\ data' = AlphaFix(data)
    /\ pc' = "a_twice"
    /\ UNCHANGED <<envVars, log, bad, ub, img, nativeBuf, localVars, dataMem, writes,
                   res, result, err, shot, pixVars>>

NextAlpha == AlphaApply \/ AlphaAgain

SpecAlpha == InitAlpha /\ [][NextAlpha]_vars

----------------------------------------------------------------------------
(* flip_rows on its own, over every buffer of height * row_len bytes *)
InitFlip ==
    /\ backend = "windows" /\ screen = 0 /\ nscreens = 1
    /\ pc = "f_start"
    /\ InitLocals
    /\ shot = NoShot
    /\ height \in 0..MaxH /\ row_len \in 0..MaxL
    /\ nativeBuf \in [1..(height * row_len) -> ByteVals]

FlipApply ==
    /\ pc = "f_start"
    /\ LET f == flip_rows(nativeBuf, height, row_len)
       IN  data' = f.new_data /\ writes' = f.writes
    /\ pc' = "f_once"
    /\ UNCHANGED <<envVars, log, bad, ub, img, nativeBuf, localVars, dataMem,
                   res, result, err, shot, pixVars>>

FlipAgain ==
    /\ pc = "f_once"
    /\ data' = flip_rows(data, height, row_len).new_data
    /\ pc' = "f_twice"
    /\ UNCHANGED <<envVars, log, bad, ub, img, nativeBuf, localVars, dataMem, writes,
                   res, result, err, shot, pixVars>>

NextFlip == FlipApply \/ FlipAgain

SpecFlip == InitFlip /\ [][NextFlip]_vars

----------------------------------------------------------------------------
(* Properties *)
Returned == pc = "done" /\ result \in {"Ok", "Err"}

ErrDepth  == "Pixels aren't integral bytes."
ErrLength == "Image size is inconsistent with W*H*D."

CopyHappened == \E r \in Resources : Happened(Ev("copy", r))

\* C1: when get_screenshot returns (Ok or Err), every native resource it
\* acquired has been released exactly once, and nothing was released twice.
C1_AllReleasedOnReturn ==
    Returned =>
        \A r \in Resources :
            /\ Count(Ev("release", r)) <= 1
            /\ Count(Ev("acquire", r)) > 0 => Count(Ev("release", r)) = 1

\* C2: macOS backend: once the length check has run, a length that
\* disagrees with width*height*pixel_bits gives Err and never Ok, no bytes
\* are copied and no image is built, and CGImageRelease has been called
\* exactly once when the call returns; on the Ok return CGImageRelease has
\* been called exactly once and CFRelease of the data came after the copy.
C2_MacLengthMismatch ==
    backend = "macos" =>
        /\ (Happened(Ev("check", "length")) /\ width * height * pixel_bits # raw_len * 8)
              => /\ res = "Err" /\ err = ErrLength /\ result # "Ok"
                 /\ ~CopyHappened /\ data = <<>> /\ shot = NoShot
        /\ (Returned /\ err = ErrLength)
              => /\ result = "Err"
                 /\ Count(Ev("release", "cg_img")) = 1
        /\ (Returned /\ result = "Ok")
              => /\ Count(Ev("release", "cg_img")) = 1
                 /\ Count(Ev("copy", "cf_data")) = 1
                 /\ Count(Ev("release", "cf_data")) = 1
                 /\ AllBefore(Ev("copy", "cf_data"), Ev("release", "cf_data"))

C2_Witness ==
    /\ backend = "macos" /\ Returned /\ result = "Err" /\ err = ErrLength
    /\ bad = {} /\ width * height * pixel_bits # raw_len * 8
    /\ Count(Ev("release", "cg_img")) = 1

\* C3: every Screenshot returned as Ok (here: by a call in which no native
\* call failed and nothing undefined happened) has
\* data.len() == row_len * height and row_len >= width * pixel_width.
C3_ShapeInvariant ==
    (pc = "done" /\ result = "Ok" /\ bad = {} /\ ~ub) =>
        /\ Len(shot.data) = shot.row_len * shot.height
        /\ shot.row_len >= shot.width * shot.pixel_width

\* C4: get_pixel (here: on an image of 4-byte pixels) either returns the
\* pixel with all four indices idx..idx+3 inside the buffer, or panics
\* without reading; it never reads outside the buffer and never returns a
\* Pixel for an index outside it.
C4_PixelInBounds ==
    (pc = "p_done" /\ shot.pixel_width = 4) =>
        /\ ~pix.oob
        /\ \/ pix.kind = "panic"
           \/ pix.kind = "pixel" /\ idx(row, col) + 3 < Len(shot.data)

\* C5: X11 and macOS backends: with a screen index >= the number of
\* screens (here: on a display connection that was opened), no snapshot is
\* requested, no screen or display handle taken from the index is passed
\* to a native call, and the call ends in an Err or a panic, never in Ok.
C5_IndexOutOfRange ==
    (backend \in {"linux", "macos"} /\ screen >= nscreens /\ "display" \notin bad) =>
        /\ ~Happened(Ev("request", "snapshot"))
        /\ ~Happened(Ev("use", "screen_ptr"))
        /\ ~Happened(Ev("use", "disp_id"))
        /\ pc = "done" => result \in {"Err", "panic"}

\* C6: a failed native call is the last thing get_screenshot does: no
\* native call, read, copy or release follows the failure, and the call
\* ends in Err, never in Ok.
C6_FailureDetected ==
    \A i \in DOMAIN log :
        log[i][1] = "fail" => /\ i = Len(log)
                              /\ pc = "done" => result = "Err"

\* C7: alpha repair: if every byte at an index n with n % 4 = 3 is zero,
\* the repaired buffer has 255 at those indices and the input bytes
\* elsewhere; otherwise it is the input; a second repair changes nothing.
AlphaZero(d) == \A n \in 0..(Len(d) - 1) : n % 4 = 3 => d[n + 1] = 0

Repaired(in, out) ==
    /\ Len(out) = Len(in)
    /\ IF AlphaZero(in)
       THEN \A n \in 0..(Len(in) - 1) :
                out[n + 1] = IF n % 4 = 3 THEN 255 ELSE in[n + 1]
       ELSE out = in

C8_FlipRows ==
    /\ pc = "f_once" =>
          /\ Len(data) = Len(nativeBuf)
          /\ \A i \in 0..(height - 1), b \in 0..(row_len - 1) :
                data[(height - 1 - i) * row_len + b + 1] = nativeBuf[i * row_len + b + 1]
          /\ \A k \in DOMAIN writes : writes[k] = 1
          /\ Len(writes) = Len(nativeBuf)
    /\ pc = "f_twice" => data = nativeBuf

C8_Witness ==
    /\ pc = "f_twice" /\ height >= 2 /\ row_len >= 2
    /\ nativeBuf[1] # nativeBuf[(height - 1) * row_len + 1]

\* C9 as stated: on a successful X11 capture the snapshot is obtained, then
\* the depth is checked, then the buffer is copied, and only after the copy
\* are the image and the display connection released; no image field is
\* read after the image is destroyed and the data is an owned copy.
C9_ReleaseAfterCopy ==
    (backend = "linux" /\ result = "Ok" /\ Happened(Ev("acquire", "ximage"))) =>
        /\ AllBefore(Ev("acquire", "ximage"), Ev("check", "depth"))
        /\ AllBefore(Ev("check", "depth"), Ev("copy", "ximage"))
        /\ AllBefore(Ev("copy", "ximage"), Ev("release", "ximage"))
        /\ AllBefore(Ev("copy", "ximage"), Ev("release", "display"))
        /\ AllBefore(Ev("read", "ximage"), Ev("release", "ximage"))
        /\ dataMem = "owned"

\* C9 amended: the display connection is closed right after the snapshot
\* is obtained, before the depth check and the copy; the depth is checked
\* before the copy; the image is destroyed only after the depth check and,
\* for a byte-aligned depth, only after the copy; no image field is read
\* after the image is destroyed and the returned data is an owned copy.
C9_CopyBeforeDestroy ==
    (backend = "linux" /\ Happened(Ev("acquire", "ximage"))) =>
        /\ AllBefore(Ev("acquire", "ximage"), Ev("release", "display"))
        /\ AllBefore(Ev("release", "display"), Ev("check", "depth"))
        /\ AllBefore(Ev("release", "display"), Ev("copy", "ximage"))
        /\ AllBefore(Ev("check", "depth"), Ev("copy", "ximage"))
        /\ AllBefore(Ev("copy", "ximage"), Ev("release", "ximage"))
        /\ Happened(Ev("release", "ximage")) =>
              /\ Happened(Ev("check", "depth"))
              /\ Happened(Ev("release", "display"))
              /\ pixel_bits % 8 = 0 => Happened(Ev("copy", "ximage"))
        /\ AllBefore(Ev("read", "ximage"), Ev("release", "ximage"))
        /\ Count(Ev("release", "ximage")) <= 1
        /\ result = "Ok" => /\ dataMem = "owned"
                            /\ Happened(Ev("copy", "ximage"))
                            /\ Happened(Ev("release", "ximage"))

C9_Witness ==
    /\ backend = "linux" /\ result = "Ok" /\ bad = {}
    /\ Happened(Ev("acquire", "ximage")) /\ Happened(Ev("copy", "ximage"))
    /\ Len(shot.data) > 0

\* C10: once a bit depth that is not a multiple of 8 has been read, no
\* pixel data is ever copied and the call, unless it crashes, returns
\* Err("Pixels aren't integral bytes."); every Ok result has
\* pixel_width * 8 equal to the bit depth the backend reported.
C10_DepthCheck ==
    /\ pixel_bits % 8 # 0 =>
          /\ ~CopyHappened /\ data = <<>> /\ result # "Ok"
          /\ (pc = "done" /\ result # "crash") => (result = "Err" /\ err = ErrDepth)
    /\ (pc = "done" /\ result = "Ok") =>
          /\ shot.pixel_width * 8 = pixel_bits
          /\ ({"ximage", "cg_img"} \cap bad = {} /\ backend # "windows")
                => pixel_bits = img.bits_per_pixel

C10_Witness ==
    /\ backend = "linux" /\ pc = "done" /\ result = "Err" /\ err = ErrDepth
    /\ bad = {} /\ img.bits_per_pixel = 4 /\ data = <<>>

====
